---- MODULE Spec2Model ----
(***************************************************************************)
(* Lowering of the PXA dialect to the Affine dialect                       *)
(* (pmlc/conversion/pxa_to_affine/pxa_to_affine.cc).                       *)
(*                                                                         *)
(* The IR is an arena: `ops` maps an operation's identity to its record,   *)
(* `blocks` maps a block to the ordered list of the operations it holds.   *)
(* The block owned by the single region of operation x is block x; the     *)
(* body of the converted unit (the function) is block 0.  Sequences are    *)
(* 1-based, so dimension i of the source (0-based) is index i+1 here.      *)
(***************************************************************************)
EXTENDS Integers, Sequences, FiniteSets, TLC

VARIABLES
  ops,        \* operation identity -> operation record
  blocks,     \* block identity -> sequence of operation identities
  replaced,   \* operations the rewriter was asked to erase (applied at the end)
  createdOps, \* operations made through rewriter.create, in creation order
  result,     \* "none" while converting, then "success" | "failure" | "aborted"
  unit0,      \* the unit as it was handed to the pass
  rewrites,   \* the matched operations, in the order the driver rewrote them
  run         \* execution of the lowered unit: [L, V, final]

vars == <<ops, blocks, replaced, createdOps, result, unit0, rewrites, run>>

\* Largest dimension count of a parallel loop in the units explored.
MaxDims == 2
\* Bit width of the integer element type in the units explored.
Width == 2
\* Largest magnitude of a floating-point element in the units explored.
MaxFloat == 2

-----------------------------------------------------------------------------
\* Sequences

Range(s) == {s[i] : i \in 1..Len(s)}

IndexOf(s, x) == CHOOSE i \in 1..Len(s) : s[i] = x

InsertBefore(s, x, items) ==
  LET k == IndexOf(s, x)
  IN SubSeq(s, 1, k - 1) \o items \o SubSeq(s, k, Len(s))

-----------------------------------------------------------------------------
\* Values: a block argument, an operation result, a value defined outside.

Arg(b, i) == <<"arg", b, i>>
Res(id) == <<"res", id, 0>>
Ext(k) == <<"ext", k, 0>>

\* One result of an affine map: operand number d (0: none) plus constant c.
Expr(d, c) == [d |-> d, c |-> c]

\* The five aggregation kinds of util::AggregationKind.
AggregationKind == {"assign", "add", "max", "min", "mul"}

ScalarKind == {"float", "int"}

-----------------------------------------------------------------------------
\* Operation records

NoOp ==
  [kind |-> "none", operands |-> <<>>, lbOperands |-> <<>>, ubOperands |-> <<>>,
   lbMap |-> <<>>, ubMap |-> <<>>, steps |-> <<>>, map |-> <<>>,
   agg |-> "", ty |-> "", pred |-> "", nargs |-> 0]

AffineParallelOp(lbMap, lbOperands, ubMap, ubOperands, steps) ==
  [NoOp EXCEPT !.kind = "affine.parallel", !.lbMap = lbMap,
               !.lbOperands = lbOperands, !.ubMap = ubMap,
               !.ubOperands = ubOperands, !.steps = steps,
               !.nargs = Len(lbMap)]

AffineForOp(lbOperands, lbMap, ubOperands, ubMap, step) ==
  [NoOp EXCEPT !.kind = "affine.for", !.lbMap = lbMap,
               !.lbOperands = lbOperands, !.ubMap = ubMap,
               !.ubOperands = ubOperands, !.steps = <<step>>, !.nargs = 1]

\* pxa.reduce: operands are val, out, idxs...; ty is out's element type.
AffineReduceOp(agg, val, out, map, idxs, ty) ==
  [NoOp EXCEPT !.kind = "pxa.reduce", !.agg = agg,
               !.operands = <<val, out>> \o idxs, !.map = map, !.ty = ty]

AffineLoadOp(memref, map, idxs, ty) ==
  [NoOp EXCEPT !.kind = "affine.load", !.operands = <<memref>> \o idxs,
               !.map = map, !.ty = ty]

AffineStoreOp(value, memref, map, idxs) ==
  [NoOp EXCEPT !.kind = "affine.store", !.operands = <<value, memref>> \o idxs,
               !.map = map]

BinaryOp(kind, lhs, rhs, ty) ==
  [NoOp EXCEPT !.kind = kind, !.operands = <<lhs, rhs>>, !.ty = ty]

CmpOp(kind, pred, lhs, rhs) ==
  [NoOp EXCEPT !.kind = kind, !.pred = pred, !.operands = <<lhs, rhs>>,
               !.ty = "i1"]

SelectOp(cond, t, f, ty) ==
  [NoOp EXCEPT !.kind = "std.select", !.operands = <<cond, t, f>>, !.ty = ty]

Terminator == [NoOp EXCEPT !.kind = "terminator"]

\* A legal operation of another dialect using some values.
OtherOp(operands) == [NoOp EXCEPT !.kind = "std.other", !.operands = operands]

\* A PXA operation the pass has no pattern for.
UnknownPxaOp(operands) ==
  [NoOp EXCEPT !.kind = "pxa.unknown", !.operands = operands]

\* Accessors of pxa.reduce.
val(op) == op.operands[1]
out(op) == op.operands[2]
idxs(op) == SubSeq(op.operands, 3, Len(op.operands))

-----------------------------------------------------------------------------
\* The IR as one record, and its navigation.

IR == [ops |-> ops, blocks |-> blocks, replaced |-> replaced,
       createdOps |-> createdOps]

ParentBlock(g, id) == CHOOSE b \in DOMAIN g.blocks : id \in Range(g.blocks[b])

HasRegion(g, id) == id \in DOMAIN g.blocks

\* The operations nested in the region of id, at any depth.
RECURSIVE Nested(_, _)
Nested(g, id) ==
  IF ~HasRegion(g, id) THEN {}
  ELSE LET direct == Range(g.blocks[id])
       IN direct \cup UNION {Nested(g, x) : x \in direct}

-----------------------------------------------------------------------------
\* The rewriter (ConversionPatternRewriter as the two patterns use it).

\* Identity of an operation a rewrite of `origin` allocates.  A matched
\* operation is rewritten once, so the identities are fresh.
NewId(origin, slot) == origin * 16 + slot

\* rewriter.create<Op>(...): insert at the insertion point [block, before].
Create(g, ip, id, rec) ==
  [g EXCEPT !.ops = (id :> rec) @@ g.ops,
            !.blocks = [g.blocks EXCEPT ![ip.block] =
                          InsertBefore(g.blocks[ip.block], ip.before, <<id>>)],
            !.createdOps = Append(g.createdOps, id)]

\* rewriter.create<AffineForOp>: the builder gives the loop a body block
\* holding the induction variable and a terminator.
CreateFor(g, ip, af, rec) ==
  LET g1 == Create(g, ip, af, rec)
      term == NewId(af, 0)
  IN [g1 EXCEPT !.ops = (term :> Terminator) @@ g1.ops,
                !.blocks = (af :> <<term>>) @@ g1.blocks]

\* The insertion point the driver sets before calling a pattern: before op.
InsertionPointBefore(g, id) == [block |-> ParentBlock(g, id), before |-> id]

setInsertionPointToStart_siblings(g, af) ==
  [block |-> ParentBlock(g, af), before |-> af]

\* rewriter.setInsertionPointToStart(&af.region().front())
setInsertionPointToStart(g, af) == [block |-> af, before |-> g.blocks[af][1]]

getInductionVar(af) == Arg(af, 1)

getSubMap_first(map, i) == <<map[1]>>

\* AffineMap::getSubMap({i}): the map with result i alone, same inputs.
getSubMap(map, i) == <<map[i]>>

\* rewriter.eraseOp(op): recorded now, applied when the conversion succeeds.
eraseOp_forgotten(g, id) == g

eraseOp(g, id) == [g EXCEPT !.replaced = g.replaced \cup {id}]

Subst(s, from, to) == [i \in 1..Len(s) |-> IF s[i] = from THEN to ELSE s[i]]

replaceAllUsesWith_operandsOnly(g, from, to) ==
  [g EXCEPT !.ops = [id \in DOMAIN g.ops |->
     [g.ops[id] EXCEPT !.operands = Subst(g.ops[id].operands, from, to)]]]

\* Value::replaceAllUsesWith: every use, wherever the user is.
replaceAllUsesWith(g, from, to) ==
  [g EXCEPT !.ops = [id \in DOMAIN g.ops |->
     [g.ops[id] EXCEPT !.operands = Subst(g.ops[id].operands, from, to),
                       !.lbOperands = Subst(g.ops[id].lbOperands, from, to),
                       !.ubOperands = Subst(g.ops[id].ubOperands, from, to)]]]

-----------------------------------------------------------------------------
\* AffineParallelOpConversion::rewrite

NumDims(op) == Len(op.lbMap)

\* The loop of lines 66-74, from dimension i on.
RECURSIVE BuildNest(_, _, _, _, _)
BuildNest(g, p, i, ip, ivs) ==
  LET op == g.ops[p]
  IN IF i > NumDims(op) THEN [g |-> g, ip |-> ip, ivs |-> ivs]
     ELSE LET af == NewId(p, i)
              g1 == CreateFor(g, ip, af,
                      AffineForOp(op.lbOperands, getSubMap(op.lbMap, i),
                                  op.ubOperands, getSubMap(op.ubMap, i),
                                  op.steps[i]))
          IN BuildNest(g1, p, i + 1, setInsertionPointToStart(g1, af),
                       Append(ivs, getInductionVar(af)))

StripeBodyOps_all(body) == body

\* [stripeBodyOps.begin(), std::prev(stripeBodyOps.end())): all but the last.
StripeBodyOps(body) == SubSeq(body, 1, Len(body) - 1)

InsertionLoc_begin(g, p, ip) ==
  IF NumDims(g.ops[p]) > 0
  THEN g.blocks[ip.block][Len(g.blocks[ip.block])]
  ELSE g.blocks[ip.block][1]

\* The operation the body is spliced in front of (lines 80-85).
InsertionLoc(g, p, ip) ==
  IF NumDims(g.ops[p]) > 0
  THEN g.blocks[ip.block][Len(g.blocks[ip.block])]
  ELSE p

\* innerLoopOps.splice(insertionLoc, stripeBodyOps, begin, prev(end))
Splice(g, p, ip) ==
  LET body == g.blocks[p]
      moved == StripeBodyOps(body)
      dest == g.blocks[ip.block]
  IN [g EXCEPT !.blocks =
        [g.blocks EXCEPT ![ip.block] = InsertBefore(dest, InsertionLoc(g, p, ip), moved),
                         ![p] = SelectSeq(body, LAMBDA x : x \notin Range(moved))]]

\* The loop of lines 89-92, from block argument idx on.
RECURSIVE ReplaceArguments(_, _, _, _)
ReplaceArguments(g, p, ivs, idx) ==
  IF idx > g.ops[p].nargs THEN g
  ELSE ReplaceArguments(replaceAllUsesWith(g, Arg(p, idx), ivs[idx]),
                        p, ivs, idx + 1)

RewriteParallel(g, p) ==
  LET nest == BuildNest(g, p, 1, InsertionPointBefore(g, p), <<>>)
      g2 == Splice(nest.g, p, nest.ip)
      g3 == ReplaceArguments(g2, p, nest.ivs, 1)
  IN eraseOp(g3, p)

-----------------------------------------------------------------------------
\* AffineReduceOpConversion

\* source.getType(): the element type the load yields.
TypeOf(g, v) == IF v[1] = "res" THEN g.ops[v[2]].ty ELSE "none"

MaxPredicate_unsigned(isFloat) == IF isFloat THEN "OGT" ELSE "ugt"

MaxPredicate(isFloat) == IF isFloat THEN "OGT" ELSE "sgt"

MinPredicate(isFloat) == IF isFloat THEN "OLT" ELSE "slt"

\* One case of the switch of createReduction; yields the IR and the value.
ReductionCase(g, ip, r, source, agg) ==
  LET op == g.ops[r]
      ty == TypeOf(g, source)
      isFloat == ty = "float"
      a == NewId(r, 2)
      b == NewId(r, 3)
      arith(f, i) ==
        [g |-> Create(g, ip, a,
                      BinaryOp(IF isFloat THEN f ELSE i, source, val(op), ty)),
         value |-> Res(a)]
      cmpSelect(pred) ==
        LET g1 == Create(g, ip, a,
                    CmpOp(IF isFloat THEN "std.cmpf" ELSE "std.cmpi", pred,
                          val(op), source))
        IN [g |-> Create(g1, ip, b, SelectOp(Res(a), val(op), source, ty)),
            value |-> Res(b)]
  IN CASE agg = "assign" -> [g |-> g, value |-> val(op)]
       [] agg = "add" -> arith("std.addf", "std.addi")
       [] agg = "max" -> cmpSelect(MaxPredicate(isFloat))
       [] agg = "min" -> cmpSelect(MinPredicate(isFloat))
       [] agg = "mul" -> arith("std.mulf", "std.muli")

createReduction(g, ip, r, source) ==
  ReductionCase(g, ip, r, source, g.ops[r].agg)

CreateStore_noMap(g, ip, r, value) ==
  LET op == g.ops[r]
  IN Create(g, ip, NewId(r, 4), AffineStoreOp(value, out(op), <<>>, idxs(op)))

\* rewriter.create<AffineStoreOp>(loc, reduce, op.out(), op.map(), op.idxs())
CreateStore(g, ip, r, value) ==
  LET op == g.ops[r]
  IN Create(g, ip, NewId(r, 4),
            AffineStoreOp(value, out(op), op.map, idxs(op)))

\* rewriter.create<AffineLoadOp>(loc, op.out(), op.map(), op.idxs())
CreateLoad(g, ip, r) ==
  LET op == g.ops[r]
  IN Create(g, ip, NewId(r, 1),
            AffineLoadOp(out(op), op.map, idxs(op), op.ty))

RewriteReduce(g, r) ==
  LET ip == InsertionPointBefore(g, r)
      g1 == CreateLoad(g, ip, r)
      red == createReduction(g1, ip, r, Res(NewId(r, 1)))
      g2 == CreateStore(red.g, ip, r, red.value)
  IN eraseOp(g2, r)

-----------------------------------------------------------------------------
\* LowerPXAToAffinePass::runOnOperation and the conversion it runs.

IsIllegal_dialectOnly(op) == op.kind \in {"pxa.reduce", "pxa.unknown"}

\* addIllegalDialect<pxa::PXADialect>(); addIllegalOp<AffineParallelOp>()
IsIllegal(op) ==
  op.kind \in {"pxa.reduce", "pxa.unknown"} \/ op.kind = "affine.parallel"

\* patterns.insert<AffineParallelOpConversion>, <AffineReduceOpConversion>
HasPattern(op) == op.kind \in {"affine.parallel", "pxa.reduce"}

\* LoweringBase::match
match(op) == TRUE

\* The illegal operations the conversion has still to legalize.
ToConvert(g) ==
  {id \in DOMAIN g.ops : IsIllegal(g.ops[id]) /\ id \notin g.replaced}

\* Operation::erase of every operation of `dead`, regions included.
EraseAll(g, dead) ==
  LET gone == dead \cup UNION {Nested(g, x) : x \in dead \cap DOMAIN g.ops}
      keep == DOMAIN g.blocks \ gone
  IN [g EXCEPT !.ops = [id \in DOMAIN g.ops \ gone |-> g.ops[id]],
               !.blocks = [b \in keep |->
                             SelectSeq(g.blocks[b], LAMBDA x : x \notin gone)]]

\* The conversion succeeded: the recorded erasures are applied.
applyRewrites(g) == [EraseAll(g, g.replaced) EXCEPT !.replaced = {}]

\* The conversion failed: what went through the rewriter is undone.
discardRewrites(g) ==
  [EraseAll(g, Range(g.createdOps)) EXCEPT !.replaced = {}, !.createdOps = <<>>]

-----------------------------------------------------------------------------
\* Run-time meaning of the operations the reduce pattern emits.

IntVal(v) == [ty |-> "int", nan |-> FALSE, v |-> v % (2 ^ Width)]
FloatVal(v) == [ty |-> "float", nan |-> FALSE, v |-> v]
NaN == [ty |-> "float", nan |-> TRUE, v |-> 0]
Bool(b) == [ty |-> "i1", nan |-> FALSE, v |-> IF b THEN 1 ELSE 0]
Poison == [ty |-> "poison", nan |-> FALSE, v |-> 0]

Signed(x) == IF x >= 2 ^ (Width - 1) THEN x - 2 ^ Width ELSE x

AddF(a, b) == IF a.nan \/ b.nan THEN NaN ELSE FloatVal(a.v + b.v)
MulF(a, b) == IF a.nan \/ b.nan THEN NaN ELSE FloatVal(a.v * b.v)
AddI(a, b) == IntVal(a.v + b.v)
MulI(a, b) == IntVal(a.v * b.v)

CmpF(pred, a, b) ==
  CASE pred = "OGT" -> Bool(~a.nan /\ ~b.nan /\ a.v > b.v)
    [] pred = "OLT" -> Bool(~a.nan /\ ~b.nan /\ a.v < b.v)
    [] OTHER -> Poison

CmpI(pred, a, b) ==
  CASE pred = "sgt" -> Bool(Signed(a.v) > Signed(b.v))
    [] pred = "slt" -> Bool(Signed(a.v) < Signed(b.v))
    [] pred = "ugt" -> Bool(a.v > b.v)
    [] pred = "ult" -> Bool(a.v < b.v)
    [] OTHER -> Poison

Lookup(f, k) == IF k \in DOMAIN f THEN f[k] ELSE Poison

Address(memref, map, ix) == <<memref, map, ix>>

\* Executes the straight-line operations of seq; yields the memory.
RECURSIVE Execute(_, _, _, _)
Execute(g, seq, env, mem) ==
  IF seq = <<>> THEN mem
  ELSE
    LET id == Head(seq)
        op == g.ops[id]
        arg(k) == Lookup(env, op.operands[k])
        bind(x) == Execute(g, Tail(seq), (Res(id) :> x) @@ env, mem)
    IN CASE op.kind = "affine.load" ->
              bind(Lookup(mem, Address(op.operands[1], op.map,
                                       SubSeq(op.operands, 2, Len(op.operands)))))
         [] op.kind = "affine.store" ->
              Execute(g, Tail(seq), env,
                      (Address(op.operands[2], op.map,
                               SubSeq(op.operands, 3, Len(op.operands)))
                         :> arg(1)) @@ mem)
         [] op.kind = "std.addf" -> bind(AddF(arg(1), arg(2)))
         [] op.kind = "std.addi" -> bind(AddI(arg(1), arg(2)))
         [] op.kind = "std.mulf" -> bind(MulF(arg(1), arg(2)))
         [] op.kind = "std.muli" -> bind(MulI(arg(1), arg(2)))
         [] op.kind = "std.cmpf" -> bind(CmpF(op.pred, arg(1), arg(2)))
         [] op.kind = "std.cmpi" -> bind(CmpI(op.pred, arg(1), arg(2)))
         [] op.kind = "std.select" ->
              bind(IF arg(1).v = 1 THEN arg(2) ELSE arg(3))
         [] OTHER -> Execute(g, Tail(seq), env, mem)

-----------------------------------------------------------------------------
\* The units of code the pass is run on.

Memref == Ext(1)
NewValue == Ext(2)
Sym == Ext(3)
Sym2 == Ext(4)

LbMap(n) == [i \in 1..n |-> Expr(1, i - 1)]
UbMap(n) == [i \in 1..n |-> Expr(IF i = 1 THEN 1 ELSE 2, 4 * i)]
Steps(n) == [i \in 1..n |-> i]
Args(b, n) == [i \in 1..n |-> Arg(b, i)]
IdMap(n) == [i \in 1..n |-> Expr(i, 0)]

Parallel(n, lbOperands) ==
  AffineParallelOp(LbMap(n), lbOperands, UbMap(n), <<Sym, Sym2>>, Steps(n))

Reduce(agg, ty, ix) ==
  AffineReduceOp(agg, NewValue, Memref, IdMap(Len(ix)), ix, ty)

Unit(o, b) == [ops |-> o, blocks |-> b]

\* a; parallel { use; reduce }; b
UnitAround(n, agg, ty) ==
  Unit(1 :> OtherOp(<<Sym>>) @@ 2 :> Parallel(n, <<Sym>>) @@
       3 :> OtherOp(<<Sym2>>) @@ 4 :> Terminator @@
       5 :> OtherOp(Args(2, n)) @@ 6 :> Reduce(agg, ty, Args(2, n)) @@
       7 :> Terminator,
       0 :> <<1, 2, 3, 4>> @@ 2 :> <<5, 6, 7>>)

\* parallel { reduce }
UnitScenario(n, agg, ty) ==
  Unit(1 :> Parallel(n, <<Sym>>) @@ 2 :> Terminator @@
       3 :> Reduce(agg, ty, Args(1, n)) @@ 4 :> Terminator,
       0 :> <<1, 2>> @@ 1 :> <<3, 4>>)

\* parallel { parallel(1 dim, bound by the outer index) { reduce } }
UnitNested(n, agg, ty) ==
  Unit(1 :> Parallel(n, <<Sym>>) @@ 2 :> Terminator @@
       3 :> Parallel(1, IF n > 0 THEN <<Arg(1, 1)>> ELSE <<Sym>>) @@
       4 :> Terminator @@
       5 :> Reduce(agg, ty, Args(1, n) \o <<Arg(3, 1)>>) @@ 6 :> Terminator,
       0 :> <<1, 2>> @@ 1 :> <<3, 4>> @@ 3 :> <<5, 6>>)

\* parallel { legal op with a region { use } }
UnitRegion(n) ==
  Unit(1 :> Parallel(n, <<Sym>>) @@ 2 :> Terminator @@
       3 :> OtherOp(<<>>) @@ 4 :> Terminator @@
       5 :> OtherOp(Args(1, n)) @@ 6 :> Terminator,
       0 :> <<1, 2>> @@ 1 :> <<3, 4>> @@ 3 :> <<5, 6>>)

\* parallel { use }; parallel { reduce }
UnitSiblings(n, agg, ty) ==
  Unit(1 :> Parallel(n, <<Sym>>) @@ 2 :> Parallel(n, <<Sym>>) @@
       3 :> Terminator @@
       4 :> OtherOp(Args(1, n)) @@ 5 :> Terminator @@
       6 :> Reduce(agg, ty, Args(2, n)) @@ 7 :> Terminator,
       0 :> <<1, 2, 3>> @@ 1 :> <<4, 5>> @@ 2 :> <<6, 7>>)

\* reduce; a; reduce
UnitFlat(agg, ty) ==
  Unit(1 :> Reduce(agg, ty, <<Sym>>) @@ 2 :> OtherOp(<<Sym>>) @@
       3 :> Reduce(agg, ty, <<Sym2>>) @@ 4 :> Terminator,
       0 :> <<1, 2, 3, 4>>)

\* parallel { PXA op without a pattern; reduce }
UnitUnknown(n, agg, ty) ==
  Unit(1 :> Parallel(n, <<Sym>>) @@ 2 :> Terminator @@
       3 :> UnknownPxaOp(Args(1, n)) @@ 4 :> Reduce(agg, ty, Args(1, n)) @@
       5 :> Terminator,
       0 :> <<1, 2>> @@ 1 :> <<3, 4, 5>>)

\* reduce
UnitReduce(agg, ty) ==
  Unit(1 :> Reduce(agg, ty, <<Sym>>) @@ 2 :> Terminator, 0 :> <<1, 2>>)

Units(aggs) ==
  UNION {{UnitAround(n, agg, ty), UnitScenario(n, agg, ty),
          UnitNested(n, agg, ty), UnitRegion(n), UnitSiblings(n, agg, ty),
          UnitFlat(agg, ty), UnitUnknown(n, agg, ty)} :
         <<n, agg, ty>> \in (0..MaxDims) \X aggs \X ScalarKind}

IntVals(w) == {IntVal(v) : v \in 0..(2 ^ w - 1)}
FloatVals(m) == {NaN} \cup {FloatVal(v) : v \in (0 - m)..m}

-----------------------------------------------------------------------------
\* The pass as a state machine.

Start(u, L, V) ==
  /\ ops = u.ops
  /\ blocks = u.blocks
  /\ replaced = {}
  /\ createdOps = <<>>
  /\ result = "none"
  /\ unit0 = u
  /\ rewrites = <<>>
  /\ run = [L |-> L, V |-> V, final |-> <<>>]

Init == \E u \in Units(AggregationKind) : Start(u, IntVal(0), IntVal(0))

Become(g) ==
  /\ ops' = g.ops
  /\ blocks' = g.blocks
  /\ replaced' = g.replaced
  /\ createdOps' = g.createdOps

\* The driver legalizes an illegal affine.parallel with its pattern.
LowerParallel(p) ==
  /\ result = "none"
  /\ p \in ToConvert(IR)
  /\ ops[p].kind = "affine.parallel"
  /\ match(ops[p])
  /\ Become(RewriteParallel(IR, p))
  /\ rewrites' = Append(rewrites, p)
  /\ UNCHANGED <<result, unit0, run>>

\* The driver legalizes an illegal pxa.reduce with its pattern.
ExpandReduce(r) ==
  /\ result = "none"
  /\ r \in ToConvert(IR)
  /\ ops[r].kind = "pxa.reduce"
  /\ ops[r].agg \in AggregationKind
  /\ match(ops[r])
  /\ Become(RewriteReduce(IR, r))
  /\ rewrites' = Append(rewrites, r)
  /\ UNCHANGED <<result, unit0, run>>

\* An illegal operation has no pattern: applyPartialConversion fails.
ConversionFailure(x) ==
  /\ result = "none"
  /\ x \in ToConvert(IR)
  /\ ~HasPattern(ops[x])
  /\ Become(discardRewrites(IR))
  /\ result' = "failure"
  /\ UNCHANGED <<unit0, rewrites, run>>

\* Nothing is left to legalize: applyPartialConversion succeeds.
ConversionSuccess ==
  /\ result = "none"
  /\ ToConvert(IR) = {}
  /\ Become(applyRewrites(IR))
  /\ result' = "success"
  /\ UNCHANGED <<unit0, rewrites, run>>

Next ==
  \/ \E p \in DOMAIN ops : LowerParallel(p)
  \/ \E r \in DOMAIN ops : ExpandReduce(r)
  \/ \E x \in DOMAIN ops : ConversionFailure(x)
  \/ ConversionSuccess

Spec == Init /\ [][Next]_vars

-----------------------------------------------------------------------------
\* Execution of a lowered straight-line unit, to observe what it stores.

ReducedAddress(u) ==
  LET r == CHOOSE id \in DOMAIN u.ops : u.ops[id].kind = "pxa.reduce"
  IN Address(out(u.ops[r]), u.ops[r].map, idxs(u.ops[r]))

InitCombine ==
  \E agg \in AggregationKind, ty \in ScalarKind :
    \E L, V \in IF ty = "float" THEN FloatVals(MaxFloat) ELSE IntVals(Width) :
      Start(UnitReduce(agg, ty), L, V)

ExecuteUnit ==
  /\ result = "success"
  /\ run.final = <<>>
  /\ LET addr == ReducedAddress(unit0)
         mem == Execute(IR, blocks[0], NewValue :> run.V, addr :> run.L)
     IN run' = [run EXCEPT !.final = <<Lookup(mem, addr)>>]
  /\ UNCHANGED <<ops, blocks, replaced, createdOps, result, unit0, rewrites>>

NextCombine ==
  \/ \E r \in DOMAIN ops : ExpandReduce(r)
  \/ ConversionSuccess
  \/ ExecuteUnit

SpecCombine == InitCombine /\ [][NextCombine]_vars

-----------------------------------------------------------------------------
\* An aggregation kind outside the enumeration reaches llvm_unreachable.

InitFatal ==
  \E u \in Units(AggregationKind \cup {"unsupported"}) :
    Start(u, IntVal(0), IntVal(0))

\* Assertions enabled: llvm_unreachable reports and aborts the process, after
\* the load of line 103 was created.
UnsupportedAbort(r) ==
  /\ result = "none"
  /\ r \in ToConvert(IR)
  /\ ops[r].kind = "pxa.reduce"
  /\ ops[r].agg \notin AggregationKind
  /\ Become(CreateLoad(IR, InsertionPointBefore(IR, r), r))
  /\ result' = "aborted"
  /\ UNCHANGED <<unit0, rewrites, run>>

\* Assertions disabled: llvm_unreachable is undefined behaviour; control may
\* run on into the code of any case, and rewrite() then completes.
UnsupportedUndefined(r) ==
  /\ result = "none"
  /\ r \in ToConvert(IR)
  /\ ops[r].kind = "pxa.reduce"
  /\ ops[r].agg \notin AggregationKind
  /\ \E k \in AggregationKind :
       LET ip == InsertionPointBefore(IR, r)
           g1 == CreateLoad(IR, ip, r)
           red == ReductionCase(g1, ip, r, Res(NewId(r, 1)), k)
       IN Become(eraseOp(CreateStore(red.g, ip, r, red.value), r))
  /\ rewrites' = Append(rewrites, r)
  /\ UNCHANGED <<result, unit0, run>>

NextFatal ==
  \/ Next
  \/ \E r \in DOMAIN ops : UnsupportedAbort(r)
  \/ \E r \in DOMAIN ops : UnsupportedUndefined(r)

SpecFatal == InitFatal /\ [][NextFatal]_vars

-----------------------------------------------------------------------------
\* Vocabulary of the properties.  Nothing below refers to NewId: the created
\* operations are found by their place in the IR.

\* The step rewrites the matched operation x.
Rewrote(x) == rewrites' = Append(rewrites, x)

LoweredLoop(p) == Rewrote(p) /\ ops[p].kind = "affine.parallel"

ExpandedReduce(r) == Rewrote(r) /\ ops[r].kind = "pxa.reduce"

Created == DOMAIN ops' \ DOMAIN ops

BlockOf(bl, id) == CHOOSE b \in DOMAIN bl : id \in Range(bl[b])

\* The operation in front of id in its block (0: none).
Pred(bl, id) ==
  LET sq == bl[BlockOf(bl, id)]
      k == IndexOf(sq, id)
  IN IF k > 1 THEN sq[k - 1] ELSE 0

\* The i-th operation of the chain that starts at `first` and goes on with
\* the first operation of the body of the one before (0: none).
RECURSIVE Chain(_, _, _)
Chain(bl, first, i) ==
  IF i = 1 THEN first
  ELSE LET f == Chain(bl, first, i - 1)
       IN IF f \in DOMAIN bl /\ bl[f] # <<>> THEN bl[f][1] ELSE 0

\* The i-th loop of the nest standing in front of p.
NestLoop(bl, p, i) == Chain(bl, Pred(bl, p), i)

NonTerminators(sq) == SubSeq(sq, 1, Len(sq) - 1)

Kinds(o, sq) == [k \in 1..Len(sq) |-> o[sq[k]].kind]

\* Where value v is used: <<user, operand list, position>>.
Uses(o, v) ==
  UNION {{<<id, f, k>> : k \in {j \in 1..Len(o[id][f]) : o[id][f][j] = v}} :
         <<id, f>> \in (DOMAIN o) \X {"operands", "lbOperands", "ubOperands"}}

Occurrences(bl, x) ==
  UNION {{<<b, k>> : k \in {j \in 1..Len(bl[b]) : bl[b][j] = x}} : b \in DOMAIN bl}

Instances(o) ==
  {id \in DOMAIN o : o[id].kind \in {"affine.parallel", "pxa.reduce"}}

-----------------------------------------------------------------------------
\* C1. Lowering a parallel loop of N dimensions creates exactly N affine.for
\* operations and nothing else but their terminators; the loop of dimension 1
\* takes the place in front of the original loop, the loop of each further
\* dimension is the only operation (before the terminator) of the body of the
\* loop of the dimension before it; with N = 0 no loop is created and the
\* body's operations stand in the surrounding block where the loop stood.
DimensionCountLaw ==
  [][\A p \in DOMAIN ops : LoweredLoop(p) =>
       LET N == Len(ops[p].lbMap)
           loops == {x \in Created : ops'[x].kind = "affine.for"}
           b == BlockOf(blocks, p)
           loop(i) == NestLoop(blocks', p, i)
       IN /\ Cardinality(loops) = N
          /\ \A x \in Created \ loops : ops'[x].kind = "terminator"
          /\ BlockOf(blocks', p) = b
          /\ N > 0 =>
               /\ blocks'[b] = InsertBefore(blocks[b], p, <<loop(1)>>)
               /\ loops = {loop(i) : i \in 1..N}
               /\ \A i \in 1..N :
                    ops'[loop(i)].ubMap = <<ops[p].ubMap[i]>>
               /\ \A i \in 1..(N - 1) :
                    /\ Len(blocks'[loop(i)]) = 2
                    /\ blocks'[loop(i)][1] = loop(i + 1)
          /\ N = 0 =>
               blocks'[b] = InsertBefore(blocks[b], p, NonTerminators(blocks[p]))
    ]_vars

\* A loop of at least two dimensions and a loop without dimensions were lowered.
DimensionCountWitness ==
  /\ result = "none"
  /\ \E p \in Range(rewrites) :
       /\ unit0.ops[p].kind = "affine.parallel"
       /\ Len(unit0.ops[p].lbMap) >= 2
       /\ Len(unit0.blocks[p]) >= 3
       /\ ops[Pred(blocks, p)].kind = "affine.for"

\* C2. Once a parallel loop is lowered, no operation of the IR, at any depth,
\* uses a block argument of its body, and the uses of the i-th argument are
\* exactly the uses of the induction variable of the i-th loop of the nest;
\* no use of a lowered loop's argument ever appears again.
NoDanglingPlaceholders ==
  [][/\ \A p \in DOMAIN ops : LoweredLoop(p) =>
          \A i \in 1..ops[p].nargs :
            LET iv == Arg(NestLoop(blocks', p, i), 1)
            IN /\ Uses(ops, Arg(p, i)) # {} => Uses(ops', iv) # {}
               /\ Uses(ops', iv) = Uses(ops, Arg(p, i))
     /\ \A p \in Range(rewrites') :
          unit0.ops[p].kind = "affine.parallel" =>
            \A i \in 1..unit0.ops[p].nargs : Uses(ops', Arg(p, i)) = {}
    ]_vars

\* A lowered loop of two dimensions whose arguments were used inside a nested
\* region, the first one as a loop bound operand.
NoDanglingWitness ==
  /\ result = "none"
  /\ \E p \in Range(rewrites) :
       /\ unit0.ops[p].kind = "affine.parallel"
       /\ unit0.ops[p].nargs >= 2
       /\ \E u \in Uses(unit0.ops, Arg(p, 1)) :
            /\ u[2] = "lbOperands"
            /\ u[1] \in Nested(unit0, p)
       /\ \E u \in Uses(unit0.ops, Arg(p, 2)) :
            u[1] \in Nested(unit0, p) \ Range(unit0.blocks[p])

\* C3. Lowering a parallel loop leaves in the innermost loop's body (N = 0:
\* in front of the loop, in the surrounding block) exactly the operations of
\* the original body but its terminator, in their order, each at one place of
\* the IR; the original terminator stays in the original body, and the
\* innermost loop ends with a terminator of its own.
OrderPreservation ==
  [][\A p \in DOMAIN ops : LoweredLoop(p) =>
       LET N == Len(ops[p].lbMap)
           body == blocks[p]
           moved == NonTerminators(body)
           b == BlockOf(blocks, p)
           inner == blocks'[NestLoop(blocks', p, N)]
       IN /\ ops[body[Len(body)]].kind = "terminator"
          /\ blocks'[p] = <<body[Len(body)]>>
          /\ \A x \in Range(moved) :
               /\ Cardinality(Occurrences(blocks', x)) = 1
               /\ ops'[x].kind = ops[x].kind
          /\ N > 0 =>
               /\ NonTerminators(inner) = moved
               /\ ops'[inner[Len(inner)]].kind = "terminator"
               /\ inner[Len(inner)] \in Created
          /\ N = 0 =>
               blocks'[b] = InsertBefore(blocks[b], p, moved)
    ]_vars

\* A lowered loop with dimensions whose body held two operations and a
\* terminator, the operations now being in the innermost loop.
OrderPreservationWitness ==
  /\ result = "none"
  /\ \E p \in Range(rewrites) :
       /\ unit0.ops[p].kind = "affine.parallel"
       /\ Len(unit0.ops[p].lbMap) >= 2
       /\ Len(unit0.blocks[p]) = 3
       /\ LET inner == blocks[NestLoop(blocks, p, Len(unit0.ops[p].lbMap))]
          IN NonTerminators(inner) = NonTerminators(unit0.blocks[p])

\* C4. The i-th loop of the nest has the i-th result of the lower bound map,
\* the i-th result of the upper bound map and the i-th step of the parallel
\* loop, and the parallel loop's whole lower and upper bound operand lists.
BoundProjection ==
  [][\A p \in DOMAIN ops : LoweredLoop(p) =>
       \A i \in 1..Len(ops[p].lbMap) :
         LET af == ops'[NestLoop(blocks', p, i)]
         IN /\ af.kind = "affine.for"
            /\ af.lbMap = <<ops[p].lbMap[i]>>
            /\ af.ubMap = <<ops[p].ubMap[i]>>
            /\ af.steps = <<ops[p].steps[i]>>
            /\ af.lbOperands = ops[p].lbOperands
            /\ af.ubOperands = ops[p].ubOperands
    ]_vars

\* A lowered loop of two dimensions whose upper bounds share an operand list
\* of two values and differ between the dimensions.
BoundProjectionWitness ==
  /\ result = "none"
  /\ \E p \in Range(rewrites) :
       /\ unit0.ops[p].kind = "affine.parallel"
       /\ Len(unit0.ops[p].ubMap) >= 2
       /\ Len(unit0.ops[p].ubOperands) = 2
       /\ unit0.ops[p].ubMap[1] # unit0.ops[p].ubMap[2]
       /\ unit0.ops[p].lbMap[1] # unit0.ops[p].lbMap[2]
       /\ ops[NestLoop(blocks, p, 2)].kind = "affine.for"

-----------------------------------------------------------------------------
\* The operations that compute the combined value, by aggregation and type.
CombineOps(agg, ty) ==
  LET f == ty = "float"
  IN CASE agg = "assign" -> <<>>
       [] agg = "add" -> <<IF f THEN "std.addf" ELSE "std.addi">>
       [] agg = "mul" -> <<IF f THEN "std.mulf" ELSE "std.muli">>
       [] agg \in {"max", "min"} ->
            <<IF f THEN "std.cmpf" ELSE "std.cmpi", "std.select">>

\* What an expansion of r put into r's block, in block order.
Emitted(r) == SelectSeq(blocks'[BlockOf(blocks', r)], LAMBDA x : x \in Created)

\* What every expansion does, whatever it emits for the combined value: the
\* new operations stand in front of the reduce, first a load and last a store
\* of the reduce's memory reference, index map and index operands, and the
\* reduce is handed to the rewriter for erasure.
LoadStoreFrame(r) ==
  LET op == ops[r]
      b == BlockOf(blocks, r)
      em == Emitted(r)
      load == ops'[em[1]]
      store == ops'[em[Len(em)]]
  IN /\ BlockOf(blocks', r) = b
     /\ blocks'[b] = InsertBefore(blocks[b], r, em)
     /\ Range(em) = Created
     /\ Len(em) >= 2
     /\ load.kind = "affine.load"
     /\ store.kind = "affine.store"
     /\ \A k \in 2..(Len(em) - 1) :
          ops'[em[k]].kind \notin {"affine.load", "affine.store"}
     /\ load.operands = <<out(op)>> \o idxs(op)
     /\ load.map = op.map
     /\ SubSeq(store.operands, 2, Len(store.operands)) = <<out(op)>> \o idxs(op)
     /\ store.map = op.map
     /\ r \in replaced'

NoReduceAfterSuccess ==
  result' = "success" => \A id \in DOMAIN ops' : ops'[id].kind # "pxa.reduce"

\* C5 as stated: every expansion emits three operations, a load, one
\* combining operation and a store.
ReductionShapeThreeOps ==
  [][/\ \A r \in DOMAIN ops : ExpandedReduce(r) =>
          /\ LoadStoreFrame(r)
          /\ Len(Emitted(r)) = 3
          /\ ops'[Emitted(r)[3]].operands[1] = Res(Emitted(r)[2])
     /\ NoReduceAfterSuccess
    ]_vars

\* C5, amended. Every expansion emits, in front of the reduce, one load
\* first and one store last, both of the reduce's memory reference, index
\* map and index operands, and between them only the operations computing
\* the combined value: none for assign, whose store takes the reduce's value
\* itself; one add or multiply of the element type; a compare followed by a
\* select for max and min.  The store takes the result of the last of them.
\* The reduce is gone when the conversion has succeeded.
ReductionShape ==
  [][/\ \A r \in DOMAIN ops : ExpandedReduce(r) =>
          LET em == Emitted(r)
              between == SubSeq(em, 2, Len(em) - 1)
          IN /\ LoadStoreFrame(r)
             /\ Kinds(ops', between) = CombineOps(ops[r].agg, ops[r].ty)
             /\ ops'[em[Len(em)]].operands[1] =
                  IF between = <<>> THEN val(ops[r])
                  ELSE Res(em[Len(em) - 1])
     /\ NoReduceAfterSuccess
    ]_vars

\* Expanded: an assign, emitting nothing between load and store, in a unit
\* that also expanded a two-index reduce inside a lowered loop nest.
ReductionShapeWitness ==
  /\ result = "none"
  /\ \E r \in Range(rewrites) :
       /\ unit0.ops[r].kind = "pxa.reduce"
       /\ unit0.ops[r].agg = "assign"
       /\ Len(idxs(unit0.ops[r])) >= 2
       /\ ops[Pred(blocks, r)].kind = "affine.store"
       /\ ops[Pred(blocks, Pred(blocks, r))].kind = "affine.load"

-----------------------------------------------------------------------------
\* The combine table of the specification.
SignedGreater(a, b) == Signed(a.v) > Signed(b.v)
OrderedGreater(a, b) == ~a.nan /\ ~b.nan /\ a.v > b.v
Greater(a, b) ==
  IF a.ty = "float" THEN OrderedGreater(a, b) ELSE SignedGreater(a, b)

CombineTable(agg, L, V) ==
  CASE agg = "assign" -> V
    [] agg = "add" -> IF L.ty = "float" THEN AddF(L, V) ELSE AddI(L, V)
    [] agg = "mul" -> IF L.ty = "float" THEN MulF(L, V) ELSE MulI(L, V)
    [] agg = "max" -> IF Greater(V, L) THEN V ELSE L
    [] agg = "min" -> IF Greater(L, V) THEN V ELSE L

\* C6. Executing the expansion of a reduce on an element holding L with the
\* value V leaves in the element the entry of the combine table; max and min
\* leave L when L or V is not a number.
CombineCorrectness ==
  run.final # <<>> =>
    LET agg == unit0.ops[1].agg
    IN /\ run.final[1] = CombineTable(agg, run.L, run.V)
       /\ run.final[1].ty = unit0.ops[1].ty
       /\ (agg \in {"max", "min"} /\ (run.L.nan \/ run.V.nan)) =>
            run.final[1] = run.L

\* An integer max executed with L negative (top bit set) and V positive.
CombineWitness ==
  /\ run.final # <<>>
  /\ unit0.ops[1].agg = "max"
  /\ unit0.ops[1].ty = "int"
  /\ run.L.v >= 2 ^ (Width - 1)
  /\ run.V.v < 2 ^ (Width - 1)
  /\ run.final[1] = run.V

-----------------------------------------------------------------------------
-----------------------------------------------------------------------------
\* C8. The pass ends in success or in failure; after success the unit holds
\* no affine.parallel and no pxa.reduce at any depth; after failure it holds
\* an illegal operation.
PassOutcome ==
  /\ result \in {"none", "success", "failure"}
  /\ result = "success" => Instances(ops) = {}
  /\ result = "failure" =>
       \E id \in DOMAIN ops :
         ops[id].kind \in {"affine.parallel", "pxa.reduce", "pxa.unknown"}

\* Success on a unit that held a reduce inside a loop inside a loop.
PassOutcomeWitness ==
  /\ result = "success"
  /\ \E p, q \in DOMAIN unit0.blocks, r \in Instances(unit0.ops) :
       /\ {p, q} \subseteq Instances(unit0.ops)
       /\ q \in Range(unit0.blocks[p])
       /\ r \in Range(unit0.blocks[q])
       /\ {p, q, r} \subseteq Range(rewrites)

-----------------------------------------------------------------------------
\* The conversion in the order applyPartialConversion visits a unit:
\* pre-order, which in the units above is the order of the identities.
RECURSIVE PreOrderLowering(_)
PreOrderLowering(g) ==
  LET todo == {id \in ToConvert(g) : HasPattern(g.ops[id])}
  IN IF todo = {} THEN applyRewrites(g)
     ELSE LET x == CHOOSE id \in todo : \A y \in todo : id <= y
          IN PreOrderLowering(IF g.ops[x].kind = "affine.parallel"
                              THEN RewriteParallel(g, x)
                              ELSE RewriteReduce(g, x))

\* C9. Whatever the order of the rewrites, a successful conversion ends in
\* the IR the pre-order conversion ends in; and a loop of N > 0 dimensions
\* whose body is one reduce indexed by the loop's arguments ends as N nested
\* loops whose innermost body is the load, the combine and the store, indexed
\* by the induction variables of the N loops in order.
RulesCommute ==
  result = "success" =>
    /\ LET g == PreOrderLowering([ops |-> unit0.ops, blocks |-> unit0.blocks,
                                  replaced |-> {}, createdOps |-> <<>>])
       IN ops = g.ops /\ blocks = g.blocks
    /\ \A n \in 1..MaxDims, agg \in AggregationKind, ty \in ScalarKind :
         unit0 = UnitScenario(n, agg, ty) =>
           LET loop(i) == Chain(blocks, blocks[0][1], i)
               inner == blocks[loop(n)]
               ivs == [i \in 1..n |-> Arg(loop(i), 1)]
           IN /\ \A i \in 1..n : ops[loop(i)].kind = "affine.for"
              /\ Kinds(ops, inner) =
                   <<"affine.load">> \o CombineOps(agg, ty)
                     \o <<"affine.store", "terminator">>
              /\ ops[inner[1]].operands = <<Memref>> \o ivs
              /\ SubSeq(ops[inner[Len(inner) - 1]].operands, 2, n + 2) =
                   <<Memref>> \o ivs

\* Success after the inner loop was lowered before the loop around it and
\* the reduce after both.
RulesCommuteWitness ==
  /\ result = "success"
  /\ Len(rewrites) = 3
  /\ unit0.ops[rewrites[1]].kind = "affine.parallel"
  /\ unit0.ops[rewrites[2]].kind = "affine.parallel"
  /\ rewrites[1] \in Range(unit0.blocks[rewrites[2]])
  /\ unit0.ops[rewrites[3]].kind = "pxa.reduce"

-----------------------------------------------------------------------------
\* The instances not yet handed to the rewriter for erasure.
Remaining == {id \in Instances(ops) : id \notin replaced}

\* C10. Every rewrite takes one instance that was not rewritten before,
\* takes exactly that one out of the remaining instances, so that their
\* number falls by one, and creates no instance; the rewrites of a run are
\* never more than the instances the unit held, and a successful run has
\* rewritten every one of them, each once.
RewrittenOnce ==
  [][/\ rewrites' # rewrites =>
          \E x \in Remaining :
            /\ match(ops[x])
            /\ Rewrote(x)
            /\ x \notin Range(rewrites)
            /\ Remaining' = Remaining \ {x}
            /\ Cardinality(Remaining') = Cardinality(Remaining) - 1
            /\ \A y \in Created :
                 ops'[y].kind \notin {"affine.parallel", "pxa.reduce"}
     /\ Len(rewrites') <= Cardinality(Instances(unit0.ops))
     /\ result' = "success" =>
          /\ Range(rewrites') = Instances(unit0.ops)
          /\ Len(rewrites') = Cardinality(Instances(unit0.ops))
    ]_vars

\* A successful run over a unit of three instances.
RewrittenOnceWitness ==
  /\ result = "success"
  /\ Cardinality(Instances(unit0.ops)) = 3
  /\ Len(rewrites) = 3

====
